---- MODULE Spec2Model ----
(***************************************************************************)
(* Hybrid logical clocks of swarm-protocol (src/swarm-protocol/src/Clock.js).*)
(* A Clock holds the last issued or observed Stamp, its own origin, a wall-  *)
(* clock offset and a minimal value length.  issueTimestamp mints a Stamp    *)
(* from the wall clock (or bumps the last one), seeTimestamp folds in a      *)
(* Stamp observed elsewhere.  Base64x64 and Stamp are not part of the        *)
(* sources at hand: they are modelled from their description (values are     *)
(* strings of base64 symbols, compared as if right-padded with zeros).       *)
(***************************************************************************)
EXTENDS Integers, Sequences, FiniteSets, TLC

(***************************************************************************)
(* Bounds of the model.                                                      *)
(***************************************************************************)
\* number of issueTimestamp/seeTimestamp calls explored, over all clocks
MaxCalls == 3

(***************************************************************************)
(* Base64x64: the compact codec.  A value is a sequence of 1..MaxLength      *)
(* symbols, each a number 0..Base-1 (the position of the character in        *)
(* 0-9A-Z_a-z~).                                                             *)
(***************************************************************************)
Base == 64
MaxLength == 11

Symbols == 0 .. (Base - 1)

SetMin(S) == CHOOSE x \in S : \A y \in S : x <= y
SetMax(S) == CHOOSE x \in S : \A y \in S : x >= y

\* the i-th symbol of s; missing symbols are zeros
Digit(s, i) == IF i <= Len(s) THEN s[i] ELSE 0

\* compare(a, b): -1, 0 or 1, on the right-padded strings
Compare(a, b) ==
    LET diff == {i \in 1 .. MaxLength : Digit(a, i) # Digit(b, i)}
    IN  IF diff = {} THEN 0
        ELSE IF Digit(a, SetMin(diff)) < Digit(b, SetMin(diff)) THEN -1 ELSE 1

\* increment(s) exists unless every symbol of s is the largest one
CanIncrement(s) == \E i \in 1 .. Len(s) : s[i] < Base - 1

\* increment(s): decode(s)+1 at the same symbol length (carry from the right)
Increment(s) ==
    LET k == SetMax({i \in 1 .. Len(s) : s[i] < Base - 1})
    IN  [i \in 1 .. Len(s) |->
            IF i < k THEN s[i] ELSE IF i = k THEN s[i] + 1 ELSE 0]

\* relax(baseline, minLength) of the value full: the shortest prefix of full,
\* of at least minLength symbols, that is still greater than the baseline
\* (one symbol past the common prefix); all of full when there is none
Relax(full, baseline, minLength) ==
    LET diff == {i \in 1 .. Len(full) : Digit(full, i) # Digit(baseline, i)}
        p    == IF diff = {} THEN Len(full) ELSE SetMin(diff)
        n    == IF p < minLength
                THEN (IF minLength < Len(full) THEN minLength ELSE Len(full))
                ELSE p
    IN  SubSeq(full, 1, n)

\* Calendar encoding of a wall-clock reading (milliseconds since the epoch,
\* Jan 2010): MMDHmSss.  Months are taken as 31 days long, which is exact in
\* the range of readings the model uses (the first month).
CalendarEncode(ms) ==
    LET days  == ms \div 86400000
        month == days \div 31
        inday == ms % 86400000
        hour  == inday \div 3600000
        min   == (inday % 3600000) \div 60000
        sec   == (inday % 60000) \div 1000
        msec  == inday % 1000
    IN  << month \div Base, month % Base, (days % 31) + 1, hour, min, sec,
           msec \div Base, msec % Base >>

\* the reading a value stands for (Base64x64.ms), the inverse of CalendarEncode
CalendarDecode(v) ==
    LET month == Digit(v, 1) * Base + Digit(v, 2)
        days  == month * 31 + (Digit(v, 3) - 1)
    IN  days * 86400000 + Digit(v, 4) * 3600000 + Digit(v, 5) * 60000
        + Digit(v, 6) * 1000 + Digit(v, 7) * Base + Digit(v, 8)

(***************************************************************************)
(* Stamp: a value and an origin.                                             *)
(***************************************************************************)
Stamp(v, o) == [value |-> v, origin |-> o]

ZeroOrigin == << 0 >>
ZeroStamp == Stamp(<< 0 >>, ZeroOrigin)

\* a.gt(b): value-major, origin-minor
Gt(a, b) ==
    \/ Compare(a.value, b.value) = 1
    \/ Compare(a.value, b.value) = 0 /\ Compare(a.origin, b.origin) = 1

\* a.eq(b) in the order: neither is greater
Eq(a, b) == ~Gt(a, b) /\ ~Gt(b, a)

\* Stamp.now(origin, offset) at the wall-clock reading wallms
StampNow(o, off, wallms) == Stamp(CalendarEncode(wallms + off), o)

\* stamp.next(origin)
StampNext(s, o) == Stamp(Increment(s.value), o)

\* The wire form <value>-<origin> as a sequence of symbols, Dash standing for
\* the separator (no symbol of the alphabet).
Dash == Base

\* Stamp.parse(text): the value is the part before the first dash, the origin
\* the part after it ("0" when there is none); a FormatError when the value is
\* empty or holds a character that is no symbol
StampParse(text) ==
    LET dashes == {i \in 1 .. Len(text) : text[i] = Dash}
        d      == IF dashes = {} THEN Len(text) + 1 ELSE SetMin(dashes)
        v      == SubSeq(text, 1, d - 1)
        o      == IF dashes = {} THEN ZeroOrigin ELSE SubSeq(text, d + 1, Len(text))
    IN  IF v = << >> \/ \E i \in 1 .. Len(v) : v[i] \notin Symbols
        THEN [ok |-> FALSE, stamp |-> ZeroStamp]
        ELSE [ok |-> TRUE, stamp |-> Stamp(v, o)]

\* An argument of the constructor or of seeTimestamp: a Stamp, or wire text.
AsStamp(s) == [form |-> "Stamp", stamp |-> s, text |-> << >>]
AsText(t) == [form |-> "string", stamp |-> ZeroStamp, text |-> t]

\* Stamp.as(x): x itself when it is a Stamp, the parse of x when it is text
StampAs(x) ==
    IF x.form = "Stamp" THEN [ok |-> TRUE, stamp |-> x.stamp] ELSE StampParse(x.text)

(***************************************************************************)
(* Clock.                                                                    *)
(***************************************************************************)
Replicas == {"A", "B"}
Origin(r) == IF r = "A" THEN << 10 >> ELSE << 11 >>
Other(r) == IF r = "A" THEN "B" ELSE "A"

\* minimal value length of a clock constructed without options.minLength
DefaultMinLength == 6
\* candidates are shortened only below this minimal length
ShortenBelow == 8

\* A number given as options.offset need not be whole: the model counts it in
\* halves, Number(w, h) standing for w + h/2 (h is 0 or 1).
Number(w, h) == w + w + h
\* x|0: the number truncated toward zero to an integer (numbers stay well
\* below 2^31 here, where |0 does not wrap)
ToInt32(x) == IF x >= 0 THEN x \div 2 ELSE 0 - ((0 - x) \div 2)

\* the constructor's options; a missing option is 0 or FALSE (falsy)
Options(given, minLength, learnOffset, off) ==
    [given |-> given, minLength |-> minLength, learnOffset |-> learnOffset,
     offset |-> off]

\* new Clock(now, options) in which an explicit offset goes before learnOffset
ClockNewOffsetFirst(now, options, wallms) ==
    LET s == StampAs(now).stamp
    IN  [last   |-> s,
         origin |-> s.origin,
         offset |-> IF options.given /\ options.offset # 0
                    THEN ToInt32(options.offset)
                    ELSE IF options.given /\ options.learnOffset
                         THEN CalendarDecode(s.value) - wallms
                         ELSE 0,
         minlen |-> IF options.given /\ options.minLength # 0
                    THEN options.minLength
                    ELSE DefaultMinLength]

\* new Clock(now, options), the local wall clock reading wallms
ClockNew(now, options, wallms) ==
    LET s == StampAs(now).stamp
    IN  [last   |-> s,
         origin |-> s.origin,
         offset |-> IF options.given /\ options.learnOffset
                    THEN CalendarDecode(s.value) - wallms
                    ELSE IF options.given /\ options.offset # 0
                         THEN ToInt32(options.offset)
                         ELSE 0,
         minlen |-> IF options.given /\ options.minLength # 0
                    THEN options.minLength
                    ELSE DefaultMinLength]

\* what a call hands back: a Stamp, nothing, or an error thrown
Returned(s) == [kind |-> "Stamp", stamp |-> s]
Undefined == [kind |-> "undefined", stamp |-> ZeroStamp]
Thrown(e) == [kind |-> e, stamp |-> ZeroStamp]

\* issueTimestamp() with the test turned around (last.gt(next) for
\* !next.gt(last)): a candidate equal to _last passes
IssueResultEqualPasses(lst, org, off, mlen, wallms) ==
    LET next == StampNow(org, off, wallms)
    IN  IF Gt(lst, next)
        THEN IF CanIncrement(lst.value)
             THEN Returned(StampNext(lst, org))
             ELSE Thrown("OverflowError")
        ELSE IF mlen < ShortenBelow
             THEN Returned(Stamp(Relax(next.value, lst.value, mlen), org))
             ELSE Returned(next)

\* issueTimestamp() whose fallback hands out _last again, under the clock's
\* origin, without the bump
IssueResultNoBump(lst, org, off, mlen, wallms) ==
    LET next == StampNow(org, off, wallms)
    IN  IF ~Gt(next, lst)
        THEN Returned(Stamp(lst.value, org))
        ELSE IF mlen < ShortenBelow
             THEN Returned(Stamp(Relax(next.value, lst.value, mlen), org))
             ELSE Returned(next)

\* issueTimestamp() that never shortens the candidate
IssueResultNoShorten(lst, org, off, mlen, wallms) ==
    LET next == StampNow(org, off, wallms)
    IN  IF ~Gt(next, lst)
        THEN IF CanIncrement(lst.value)
             THEN Returned(StampNext(lst, org))
             ELSE Thrown("OverflowError")
        ELSE Returned(next)

\* issueTimestamp() whose fallback is last.next(last.origin): the bump keeps
\* the origin of _last
IssueResultKeepOrigin(lst, org, off, mlen, wallms) ==
    LET next == StampNow(org, off, wallms)
    IN  IF ~Gt(next, lst)
        THEN IF CanIncrement(lst.value)
             THEN Returned(StampNext(lst, lst.origin))
             ELSE Thrown("OverflowError")
        ELSE IF mlen < ShortenBelow
             THEN Returned(Stamp(Relax(next.value, lst.value, mlen), org))
             ELSE Returned(next)

\* issueTimestamp() that leaves the origin out: its Stamps are anonymous
IssueResultNoOrigin(lst, org, off, mlen, wallms) ==
    LET next == StampNow(ZeroOrigin, off, wallms)
    IN  IF ~Gt(next, lst)
        THEN IF CanIncrement(lst.value)
             THEN Returned(StampNext(lst, ZeroOrigin))
             ELSE Thrown("OverflowError")
        ELSE IF mlen < ShortenBelow
             THEN Returned(Stamp(Relax(next.value, lst.value, mlen), ZeroOrigin))
             ELSE Returned(next)

\* issueTimestamp() of a clock in state (lst, org, off, mlen) when the wall
\* clock reads wallms: the Stamp returned, or the error of last.next
IssueResult(lst, org, off, mlen, wallms) ==
    LET next == StampNow(org, off, wallms)
    IN  IF ~Gt(next, lst)
        THEN IF CanIncrement(lst.value)
             THEN Returned(StampNext(lst, org))
             ELSE Thrown("OverflowError")
        ELSE IF mlen < ShortenBelow
             THEN Returned(Stamp(Relax(next.value, lst.value, mlen), org))
             ELSE Returned(next)

\* seeTimestamp that forgets to adopt, and one that always adopts
SeeLastIgnore(lst, stamp) == lst
SeeLastAlways(lst, stamp) == stamp

\* seeTimestamp that compares the values only: a Stamp of the same value is
\* adopted whatever its origin
SeeLastByValue(lst, stamp) ==
    IF Compare(stamp.value, lst.value) >= 0 THEN stamp ELSE lst

\* _last after seeTimestamp(stamp)
SeeLast(lst, stamp) == IF Gt(stamp, lst) THEN stamp ELSE lst

(***************************************************************************)
(* The environment: wall-clock readings and the stamps offered to            *)
(* seeTimestamp.                                                             *)
(***************************************************************************)
\* 2010-01-02 02:03:04.000 UTC, in milliseconds since the epoch
WallBase == 86400000 + 2 * 3600000 + 3 * 60000 + 4 * 1000
\* the readings the hosts' wall clocks take: WallBase, 64 ms and 1 ms later
WallTimes == {WallBase, WallBase + 64, WallBase + 1}

\* The clocks' fields (_last, _origin, _offset, _minlen, by replica), the
\* hosts' wall clocks, and the history of the calls: the Stamps issued and
\* seen by each clock, the number of calls (of the clocks' methods and of the
\* version vectors' operations), and the latest two calls.
VARIABLES last, origin, offset, minlen, wall, issued, seen, calls, recent

\* Threads of control inside a call on clock A (what each has read and is
\* about to write), and whether the calls on a clock are serialized.
VARIABLES running, serialized

\* Version vectors (origin -> highest value seen), by name, and the latest
\* two operations applied to them.
VARIABLES vec, vvlog

\* How each clock was constructed: its arguments, and the reading of the wall
\* clock the constructor took (it takes one only to learn the offset).
VARIABLES built

clockVars == << last, origin, offset, minlen, wall, issued, seen, recent >>
threadVars == << running, serialized >>
vvVars == << vec, vvlog >>

vars == << last, origin, offset, minlen, wall, issued, seen, calls, recent,
           running, serialized, vec, vvlog, built >>

\* A call: the method, the clock, its Stamp (the candidate Stamp.now of
\* issueTimestamp, the Stamp given to seeTimestamp), what the clock held as
\* _last when called, and what came back.
Call(name, r, arg, prev, res) ==
    [name |-> name, clock |-> r, arg |-> arg, prev |-> prev, ret |-> res]

\* the history after one more call
Remember(c) ==
    /\ calls' = calls + 1
    /\ recent' = IF Len(recent) < 2 THEN Append(recent, c)
                 ELSE Append(Tail(recent), c)
    /\ issued' = IF c.name = "issueTimestamp" /\ c.ret.kind = "Stamp"
                 THEN [issued EXCEPT ![c.clock] = @ \cup {c.ret.stamp}]
                 ELSE issued
    /\ seen' = IF c.name = "seeTimestamp" /\ c.ret.kind = "undefined"
               THEN [seen EXCEPT ![c.clock] = @ \cup {c.arg}]
               ELSE seen

\* what clock r reads now: the wall clock plus the offset
Reading(r) == wall[r] + offset[r]

\* a Stamp minted by origin o, ahead ms of what clock r reads now
PeerStamp(r, o, ahead) == Stamp(CalendarEncode(Reading(r) + ahead), o)

\* wire texts from peers or storage: "~" (the largest one-symbol value, no
\* origin), "z-B" (short), "-A" (no value: malformed)
ExternalTexts == { << 63 >>, << 62, Dash, 11 >>, << Dash, 10 >> }

\* What seeTimestamp of a clock running alone may be given: the texts above,
\* a Stamp of this very millisecond from an anonymous peer and from the other
\* replica, and a Stamp of the other replica 5000 ms ahead.
ExternalInputs(r) ==
    {AsText(t) : t \in ExternalTexts}
    \cup {AsStamp(PeerStamp(r, ZeroOrigin, 0)),
          AsStamp(PeerStamp(r, Origin(Other(r)), 0)),
          AsStamp(PeerStamp(r, Origin(Other(r)), 5000))}

\* what the threads of control give seeTimestamp of clock r: "~", the
\* malformed "-A", and a Stamp of the other replica 5000 ms ahead
ThreadInputs(r) ==
    {AsText(<< 63 >>), AsText(<< Dash, 10 >>),
     AsStamp(PeerStamp(r, Origin(Other(r)), 5000))}

\* what seeTimestamp of clock r is given when replicas exchange their stamps
PeerInputs(r) == {AsStamp(s) : s \in issued[Other(r)]}

\* How a clock of replica r is constructed: from the text "0-r" without
\* options, with a minimal length of 8 and an offset of 1000.5, or with a
\* minimal length of 7 and an offset of 0.5; from the time dictated from
\* upstream (2 s ahead of WallBase), learning the offset (an offset of 1000
\* given too); from "1-r", far ahead of the wall clock.
Config(now, options) == [now |-> now, options |-> options]
ZeroText(r) == AsText(<< 0, Dash >> \o Origin(r))
PlainConfig(r) == Config(ZeroText(r), Options(FALSE, 0, FALSE, 0))
LongConfig(r) == Config(ZeroText(r), Options(TRUE, 8, FALSE, Number(1000, 1)))
Configs(r) ==
    { PlainConfig(r),
      LongConfig(r),
      Config(ZeroText(r), Options(TRUE, 7, FALSE, Number(0, 1))),
      Config(AsStamp(Stamp(CalendarEncode(WallBase + 2000), Origin(r))),
             Options(TRUE, 0, TRUE, Number(1000, 0))),
      Config(AsStamp(Stamp(<< 1 >>, Origin(r))), Options(FALSE, 0, FALSE, 0)) }

(***************************************************************************)
(* Threads of control calling into one clock.  A call reads _last (and       *)
(* computes what it will store) in one step and stores it in a later step.   *)
(***************************************************************************)
Threads == {"t1", "t2"}

\* a thread outside any call
Idle == [op |-> "idle", next |-> ZeroStamp, arg |-> ZeroStamp, prev |-> ZeroStamp]
\* a thread inside the call op: next is the Stamp it is about to store in
\* _last, arg the call's Stamp, prev the _last it has read
Inside(op, next, arg, prev) == [op |-> op, next |-> next, arg |-> arg, prev |-> prev]

(***************************************************************************)
(* Version vector: for each origin the highest value seen from it, or no     *)
(* entry.                                                                    *)
(***************************************************************************)
VVOrigins == {ZeroOrigin, Origin("A"), Origin("B")}
\* the entry of an origin nothing was seen from
NoEntry == << >>
EmptyVV == [o \in VVOrigins |-> NoEntry]
VVHas(v, o) == v[o] # NoEntry

\* update(ts) that replaces the entry whatever it holds
VVUpdateAlways(v, ts) == [v EXCEPT ![ts.origin] = ts.value]

\* update(ts): the entry of ts.origin becomes ts.value if there is none or
\* ts.value is strictly greater; a no-op otherwise
VVUpdate(v, ts) ==
    IF ~VVHas(v, ts.origin) \/ Compare(ts.value, v[ts.origin]) = 1
    THEN [v EXCEPT ![ts.origin] = ts.value]
    ELSE v

\* covers(ts): the entry of ts.origin is >= ts.value; the zero origin is
\* always covered
VVCovers(v, ts) ==
    \/ Compare(ts.origin, ZeroOrigin) = 0
    \/ VVHas(v, ts.origin) /\ Compare(v[ts.origin], ts.value) >= 0

\* merge(other) that keeps its own entries where it has one
VVMergeOwn(a, b) == [o \in VVOrigins |-> IF VVHas(a, o) THEN a[o] ELSE b[o]]

\* merge(other): the per-origin maximum
VVMerge(a, b) ==
    [o \in VVOrigins |->
        IF ~VVHas(b, o) THEN a[o]
        ELSE IF ~VVHas(a, o) THEN b[o]
        ELSE IF Compare(b[o], a[o]) = 1 THEN b[o] ELSE a[o]]

\* two vectors are equal: the same origins have entries, of the same value
\* (values that differ in trailing zeros only are the same value)
VVEq(a, b) ==
    \A o \in VVOrigins : VVHas(a, o) = VVHas(b, o) /\ Compare(a[o], b[o]) = 0

\* The vectors at hand, by name.  An operation in the history: the operation
\* (update, covers, merge), the vector it was applied to and what that held
\* before, the Stamp given (update, covers) or the name of the other vector
\* (merge), and what covers answered.
VVNames == {"X", "Y", "Z"}
VVOp(op, on, before, ts, other, result) ==
    [op |-> op, on |-> on, before |-> before, ts |-> ts, other |-> other,
     result |-> result]

\* no thread is inside a call
NoThreads == running = [t \in Threads |-> Idle]

\* the version vectors start as start, nothing done to them yet
VVStart(start) == vec = start /\ vvlog = << >>

\* no thread is inside a call, and the version vectors are empty
Quiet == NoThreads /\ VVStart([n \in VVNames |-> EmptyVV])

\* the state after constructing clock r from cfg[r] while its wall clock reads w[r]
Constructed(cfg, w) ==
    /\ last = [r \in Replicas |-> ClockNew(cfg[r].now, cfg[r].options, w[r]).last]
    /\ origin = [r \in Replicas |-> ClockNew(cfg[r].now, cfg[r].options, w[r]).origin]
    /\ offset = [r \in Replicas |-> ClockNew(cfg[r].now, cfg[r].options, w[r]).offset]
    /\ minlen = [r \in Replicas |-> ClockNew(cfg[r].now, cfg[r].options, w[r]).minlen]
    /\ wall = w
    /\ built = [r \in Replicas |->
                  [now |-> cfg[r].now, options |-> cfg[r].options,
                   wall |-> IF cfg[r].options.given /\ cfg[r].options.learnOffset
                            THEN w[r] ELSE 0]]
    /\ issued = [r \in Replicas |-> {}]
    /\ seen = [r \in Replicas |-> {}]
    /\ calls = 0
    /\ recent = << >>

\* one clock, replica A, under every configuration (B is constructed, idle)
Init ==
    \E c \in Configs("A"), w \in WallTimes :
        /\ Constructed([r \in Replicas |-> IF r = "A" THEN c ELSE PlainConfig(r)],
                       [r \in Replicas |-> IF r = "A" THEN w ELSE WallBase])
        /\ serialized = TRUE
        /\ Quiet

\* two clocks that exchange stamps
InitSwarm ==
    \E c \in [Replicas -> {"plain", "long"}], w \in [Replicas -> WallTimes] :
        /\ Constructed([r \in Replicas |->
                           IF c[r] = "plain" THEN PlainConfig(r) ELSE LongConfig(r)], w)
        /\ serialized = TRUE
        /\ Quiet

\* clock r: issueTimestamp() without the assignment this._last = next
IssueTimestampNoStore(r) ==
    LET res == IssueResult(last[r], origin[r], offset[r], minlen[r], wall[r])
    IN  /\ calls < MaxCalls
        /\ Remember(Call("issueTimestamp", r, StampNow(origin[r], offset[r], wall[r]), last[r], res))
        /\ UNCHANGED << last, origin, offset, minlen, wall, threadVars, vvVars, built >>

\* clock r: issueTimestamp()
IssueTimestamp(r) ==
    LET res == IssueResult(last[r], origin[r], offset[r], minlen[r], wall[r])
    IN  /\ calls < MaxCalls
        /\ last' = IF res.kind = "Stamp" THEN [last EXCEPT ![r] = res.stamp] ELSE last
        /\ Remember(Call("issueTimestamp", r, StampNow(origin[r], offset[r], wall[r]), last[r], res))
        /\ UNCHANGED << origin, offset, minlen, wall, threadVars, vvVars, built >>

\* clock r: seeTimestamp(x) that takes the origin of the Stamp along with it
SeeTimestampTakesOrigin(r, x) ==
    LET parsed == StampAs(x)
    IN  /\ calls < MaxCalls
        /\ last' = IF parsed.ok
                   THEN [last EXCEPT ![r] = SeeLast(last[r], parsed.stamp)]
                   ELSE last
        /\ origin' = IF parsed.ok /\ Gt(parsed.stamp, last[r])
                     THEN [origin EXCEPT ![r] = parsed.stamp.origin]
                     ELSE origin
        /\ Remember(Call("seeTimestamp", r, parsed.stamp, last[r],
                         IF parsed.ok THEN Undefined ELSE Thrown("FormatError")))
        /\ UNCHANGED << offset, minlen, wall, threadVars, vvVars, built >>

\* clock r: seeTimestamp(x)
SeeTimestamp(r, x) ==
    LET parsed == StampAs(x)
    IN  /\ calls < MaxCalls
        /\ last' = IF parsed.ok
                   THEN [last EXCEPT ![r] = SeeLast(last[r], parsed.stamp)]
                   ELSE last
        /\ Remember(Call("seeTimestamp", r, parsed.stamp, last[r],
                         IF parsed.ok THEN Undefined ELSE Thrown("FormatError")))
        /\ UNCHANGED << origin, offset, minlen, wall, threadVars, vvVars, built >>

\* the wall clock of replica r's host moves (forward or backward)
SetWall(r, w) ==
    /\ w # wall[r]
    /\ wall' = [wall EXCEPT ![r] = w]
    /\ UNCHANGED << last, origin, offset, minlen, issued, seen, calls, recent,
                    threadVars, vvVars, built >>

Next ==
    \/ IssueTimestamp("A")
    \/ \E x \in ExternalInputs("A") : SeeTimestamp("A", x)
    \/ \E w \in WallTimes : SetWall("A", w)

Spec == Init /\ [][Next]_vars

NextSwarm ==
    \E r \in Replicas :
        \/ IssueTimestamp(r)
        \/ \E x \in PeerInputs(r) : SeeTimestamp(r, x)
        \/ \E w \in WallTimes : SetWall(r, w)

SpecSwarm == InitSwarm /\ [][NextSwarm]_vars

(***************************************************************************)
(* Two threads of control on clock A.  Inside issueTimestamp the read of     *)
(* _last (with the computation of next) and the assignment this._last = next *)
(* are two steps; inside seeTimestamp, the test stamp.gt(this._last) and the *)
(* assignment this._last = stamp.  When the calls are serialized, a thread   *)
(* enters a call only while no other thread is inside one.                   *)
(***************************************************************************)
\* entering a call with no regard to the other threads
MayEnterAnyTime(t) == TRUE

\* thread t may enter a call
MayEnter(t) == serialized => \A u \in Threads \ {t} : running[u] = Idle

\* the calls begun: those that returned and those a thread is inside
Begun == calls + Cardinality({t \in Threads : running[t] # Idle})

\* thread t enters issueTimestamp(): it reads the wall clock and _last and
\* computes next (or last.next throws)
IssueRead(t) ==
    LET res  == IssueResult(last["A"], origin["A"], offset["A"], minlen["A"], wall["A"])
        cand == StampNow(origin["A"], offset["A"], wall["A"])
    IN  /\ running[t] = Idle
        /\ MayEnter(t)
        /\ Begun < MaxCalls
        /\ IF res.kind = "Stamp"
           THEN /\ running' = [running EXCEPT ![t] = Inside("issue", res.stamp, cand, last["A"])]
                /\ UNCHANGED << issued, seen, calls, recent >>
           ELSE /\ Remember(Call("issueTimestamp", "A", cand, last["A"], res))
                /\ UNCHANGED running
        /\ UNCHANGED << last, origin, offset, minlen, wall, serialized, vvVars, built >>

\* thread t stores next in _last and returns it
IssueWrite(t) ==
    /\ running[t].op = "issue"
    /\ last' = [last EXCEPT !["A"] = running[t].next]
    /\ Remember(Call("issueTimestamp", "A", running[t].arg, running[t].prev,
                     Returned(running[t].next)))
    /\ running' = [running EXCEPT ![t] = Idle]
    /\ UNCHANGED << origin, offset, minlen, wall, serialized, vvVars, built >>

\* thread t enters seeTimestamp(x): Stamp.as(x) and the test against _last;
\* the call is over when x is malformed or the Stamp is not greater
SeeRead(t, x) ==
    LET parsed == StampAs(x)
    IN  /\ running[t] = Idle
        /\ MayEnter(t)
        /\ Begun < MaxCalls
        /\ IF parsed.ok /\ Gt(parsed.stamp, last["A"])
           THEN /\ running' = [running EXCEPT
                                  ![t] = Inside("see", parsed.stamp, parsed.stamp, last["A"])]
                /\ UNCHANGED << issued, seen, calls, recent >>
           ELSE /\ Remember(Call("seeTimestamp", "A", parsed.stamp, last["A"],
                                 IF parsed.ok THEN Undefined ELSE Thrown("FormatError")))
                /\ UNCHANGED running
        /\ UNCHANGED << last, origin, offset, minlen, wall, serialized, vvVars, built >>

\* thread t stores the Stamp in _last and returns
SeeWrite(t) ==
    /\ running[t].op = "see"
    /\ last' = [last EXCEPT !["A"] = running[t].next]
    /\ Remember(Call("seeTimestamp", "A", running[t].arg, running[t].prev, Undefined))
    /\ running' = [running EXCEPT ![t] = Idle]
    /\ UNCHANGED << origin, offset, minlen, wall, serialized, vvVars, built >>

\* clock A, without options or with a minimal length of 8, its calls
\* serialized or not
InitThreads ==
    \E c \in {PlainConfig("A"), LongConfig("A")}, w \in WallTimes, m \in BOOLEAN :
        /\ Constructed([r \in Replicas |-> IF r = "A" THEN c ELSE PlainConfig(r)],
                       [r \in Replicas |-> IF r = "A" THEN w ELSE WallBase])
        /\ serialized = m
        /\ Quiet

NextThreads ==
    \/ \E t \in Threads : IssueRead(t)
    \/ \E t \in Threads : IssueWrite(t)
    \/ \E t \in Threads : \E x \in ThreadInputs("A") : SeeRead(t, x)
    \/ \E t \in Threads : SeeWrite(t)
    \/ \E w \in WallTimes : SetWall("A", w)

SpecThreads == InitThreads /\ [][NextThreads]_vars

(***************************************************************************)
(* Version vectors in use: X is updated and queried, and any vector is       *)
(* merged into any.                                                          *)
(***************************************************************************)
\* the Stamps given to update: "1-A", "0-A", "1-B", "1-0"
VVUpdates ==
    { Stamp(<< 1 >>, Origin("A")), Stamp(<< 0 >>, Origin("A")),
      Stamp(<< 1 >>, Origin("B")), Stamp(<< 1 >>, ZeroOrigin) }
\* the Stamps covers is asked about: "0-A", "0-B", "2-0"
VVQueries ==
    { Stamp(<< 0 >>, Origin("A")), Stamp(<< 0 >>, Origin("B")),
      Stamp(<< 2 >>, ZeroOrigin) }
\* what a vector holds to begin with: nothing, {A: "10", B: "2"} or
\* {A: "2", 0: "1"}
VVSome ==
    { EmptyVV,
      [EmptyVV EXCEPT ![Origin("A")] = << 1, 0 >>, ![Origin("B")] = << 2 >>],
      [EmptyVV EXCEPT ![Origin("A")] = << 2 >>, ![ZeroOrigin] = << 1 >>] }

\* the history after one more operation
VVRemember(o) ==
    vvlog' = IF Len(vvlog) < 2 THEN Append(vvlog, o) ELSE Append(Tail(vvlog), o)

\* vector n: update(ts)
VVUpdateStep(n, ts) ==
    /\ calls < MaxCalls
    /\ calls' = calls + 1
    /\ vec' = [vec EXCEPT ![n] = VVUpdate(vec[n], ts)]
    /\ VVRemember(VVOp("update", n, vec[n], ts, n, FALSE))
    /\ UNCHANGED << clockVars, threadVars, built >>

\* vector n: covers(ts)
VVCoversStep(n, ts) ==
    /\ calls < MaxCalls
    /\ calls' = calls + 1
    /\ VVRemember(VVOp("covers", n, vec[n], ts, n, VVCovers(vec[n], ts)))
    /\ UNCHANGED << vec, clockVars, threadVars, built >>

\* vector n: merge(vector m)
VVMergeStep(n, m) ==
    /\ calls < MaxCalls
    /\ calls' = calls + 1
    /\ vec' = [vec EXCEPT ![n] = VVMerge(vec[n], vec[m])]
    /\ VVRemember(VVOp("merge", n, vec[n], ZeroStamp, m, FALSE))
    /\ UNCHANGED << clockVars, threadVars, built >>

InitVV ==
    \E start \in [VVNames -> VVSome] :
        /\ Constructed([r \in Replicas |-> PlainConfig(r)], [r \in Replicas |-> WallBase])
        /\ serialized = TRUE
        /\ NoThreads
        /\ VVStart(start)

NextVV ==
    \/ \E ts \in VVUpdates : VVUpdateStep("X", ts)
    \/ \E ts \in VVQueries : VVCoversStep("X", ts)
    \/ \E n, m \in VVNames : VVMergeStep(n, m)

SpecVV == InitVV /\ [][NextVV]_vars

(***************************************************************************)
(* Observing the calls.                                                      *)
(***************************************************************************)
\* the latest call and the one before it (when calls > 0, calls > 1)
Latest == recent[Len(recent)]
Earlier == recent[Len(recent) - 1]

\* in a step: the call the step makes
NewCall == recent'[Len(recent')]
\* this step is a call of issueTimestamp (seeTimestamp) on clock r
IssueStep(r) == calls' = calls + 1 /\ NewCall.name = "issueTimestamp" /\ NewCall.clock = r
SeeStep(r) == calls' = calls + 1 /\ NewCall.name = "seeTimestamp" /\ NewCall.clock = r
\* the candidate issueTimestamp of clock r would read now
Candidate(r) == StampNow(origin[r], offset[r], wall[r])

(***************************************************************************)
(* C1: every Stamp issueTimestamp returns is strictly greater than every     *)
(* Stamp the clock returned before and every Stamp seeTimestamp was given    *)
(* before, whatever the wall clock did.                                      *)
(***************************************************************************)
C1_Monotonic ==
    [][\A r \in Replicas :
          (IssueStep(r) /\ NewCall.ret.kind = "Stamp")
          => \A s \in issued[r] \cup seen[r] : Gt(NewCall.ret.stamp, s)]_vars

\* a clock that has seen a Stamp and returned one returns another
C1_Witness ==
    /\ calls > 0
    /\ Latest.name = "issueTimestamp" /\ Latest.ret.kind = "Stamp"
    /\ Cardinality(issued[Latest.clock]) >= 2
    /\ seen[Latest.clock] # {}

(***************************************************************************)
(* C2: once a clock was given, through seeTimestamp, a Stamp another         *)
(* replica's clock issued, every Stamp it issues is strictly greater than    *)
(* that Stamp.                                                               *)
(***************************************************************************)
C2_Causality ==
    [][\A r \in Replicas :
          (IssueStep(r) /\ NewCall.ret.kind = "Stamp")
          => \A t \in seen[r] \cap issued[Other(r)] : Gt(NewCall.ret.stamp, t)]_vars

\* a clock issues right after seeing the other clock's Stamp, which is ahead
\* of its own wall clock
C2_Witness ==
    /\ calls > 1
    /\ Earlier.name = "seeTimestamp" /\ Latest.name = "issueTimestamp"
    /\ Earlier.clock = Latest.clock
    /\ Earlier.arg \in issued[Other(Latest.clock)]
    /\ Gt(Earlier.arg, Latest.arg)
    /\ Latest.ret.kind = "Stamp"

(***************************************************************************)
(* C3: seeTimestamp(stamp) sets _last to stamp if stamp is strictly greater  *)
(* than _last and leaves it unchanged otherwise; either way the new _last is *)
(* the maximum of the old _last and stamp.                                   *)
(***************************************************************************)
C3_SeeAdopts ==
    [][\A r \in Replicas :
          (SeeStep(r) /\ NewCall.ret.kind = "undefined")
          => /\ Gt(NewCall.arg, last[r]) => last'[r] = NewCall.arg
             /\ ~Gt(NewCall.arg, last[r]) => last'[r] = last[r]
             /\ last'[r] \in {last[r], NewCall.arg}
             /\ ~Gt(last[r], last'[r]) /\ ~Gt(NewCall.arg, last'[r])]_vars

\* a Stamp was adopted, and then a smaller one was not
C3_Witness ==
    /\ calls > 1
    /\ Earlier.name = "seeTimestamp" /\ Latest.name = "seeTimestamp"
    /\ Earlier.clock = Latest.clock
    /\ Gt(Earlier.arg, Earlier.prev) /\ Latest.prev = Earlier.arg
    /\ Gt(Latest.prev, Latest.arg) /\ last[Latest.clock] = Earlier.arg

(***************************************************************************)
(* C4: every call of issueTimestamp leaves _last strictly greater than it    *)
(* was, and every call of seeTimestamp leaves it greater or equal: _last     *)
(* never decreases.                                                          *)
(***************************************************************************)
C4_LastMonotone ==
    [][\A r \in Replicas :
          /\ IssueStep(r) => Gt(last'[r], last[r])
          /\ SeeStep(r) => ~Gt(last[r], last'[r])]_vars

(***************************************************************************)
(* C5: issueTimestamp never fails: every call returns a Stamp.               *)
(***************************************************************************)
C5_NeverFails ==
    (calls > 0 /\ Latest.name = "issueTimestamp") => Latest.ret.kind = "Stamp"

(***************************************************************************)
(* C6: a clock with minLength 6 that issues twice within one wall-clock      *)
(* millisecond, seeing nothing in between, returns two distinct Stamps, the  *)
(* value of the second exactly one greater than that of the first.           *)
(***************************************************************************)
\* this step is the second of two issueTimestamp calls of clock r, of minimal
\* length 6, made one after the other within one millisecond; the first returned
SecondOfTwo(r) ==
    /\ IssueStep(r)
    /\ minlen[r] = 6
    /\ calls > 0
    /\ Latest.name = "issueTimestamp" /\ Latest.clock = r
    /\ Latest.ret.kind = "Stamp"
    /\ Latest.arg = Candidate(r)

C7_FutureSeen ==
    [][\A r \in Replicas :
          ( /\ IssueStep(r)
            /\ calls > 0
            /\ Latest.name = "seeTimestamp" /\ Latest.clock = r
            /\ Latest.ret.kind = "undefined"
            /\ Latest.arg.value = CalendarEncode(Reading(r) + 5000) )
          => /\ NewCall.ret.kind = "Stamp"
             /\ Gt(NewCall.ret.stamp, Latest.arg)
             /\ NewCall.ret.stamp = StampNext(last[r], origin[r])]_vars

(***************************************************************************)
(* C8: whenever the candidate is not strictly greater than _last,            *)
(* issueTimestamp returns last.next(origin), the Stamp of value              *)
(* increment(last.value) and of the clock's origin, and stores it as _last.  *)
(***************************************************************************)
C8_Fallback ==
    [][\A r \in Replicas :
          (IssueStep(r) /\ ~Gt(Candidate(r), last[r]))
          => /\ NewCall.ret.kind = "Stamp"
             /\ NewCall.ret.stamp.value = Increment(last[r].value)
             /\ NewCall.ret.stamp.origin = origin[r]
             /\ last'[r] = NewCall.ret.stamp]_vars

(***************************************************************************)
(* C9: when the candidate is strictly greater than _last, issueTimestamp     *)
(* returns the candidate relaxed against last.value down to minLength        *)
(* symbols if minLength < 8 and the candidate itself if minLength >= 8; a    *)
(* Stamp of the fallback branch is not relaxed; the Stamp returned is the    *)
(* new _last.                                                                *)
(***************************************************************************)
C9_Shorten ==
    [][\A r \in Replicas :
          IssueStep(r)
          => /\ Gt(Candidate(r), last[r])
                => /\ NewCall.ret.kind = "Stamp"
                   /\ minlen[r] < 8 =>
                        NewCall.ret.stamp =
                            Stamp(Relax(Candidate(r).value, last[r].value, minlen[r]),
                                  origin[r])
                   /\ minlen[r] >= 8 => NewCall.ret.stamp = Candidate(r)
             /\ (~Gt(Candidate(r), last[r]) /\ NewCall.ret.kind = "Stamp")
                => NewCall.ret.stamp = StampNext(last[r], origin[r])
             /\ NewCall.ret.kind = "Stamp" => last'[r] = NewCall.ret.stamp]_vars

\* a candidate greater than _last was returned with fewer symbols
C9_Witness ==
    /\ calls > 0
    /\ Latest.name = "issueTimestamp" /\ Latest.ret.kind = "Stamp"
    /\ Gt(Latest.arg, Latest.prev)
    /\ minlen[Latest.clock] < 8
    /\ Len(Latest.ret.stamp.value) < Len(Latest.arg.value)
    /\ last[Latest.clock] = Latest.ret.stamp

(***************************************************************************)
(* C10: every Stamp issueTimestamp returns has a value of at least minLength *)
(* symbols.                                                                  *)
(***************************************************************************)
C10_MinLength ==
    (calls > 0 /\ Latest.name = "issueTimestamp" /\ Latest.ret.kind = "Stamp")
    => Len(Latest.ret.stamp.value) >= minlen[Latest.clock]

(***************************************************************************)
(* C11: when the calls on a clock are serialized, whatever threads make them *)
(* in whatever order, every Stamp issueTimestamp returns is strictly greater *)
(* than every Stamp returned or seen before, and _last is never below a      *)
(* Stamp returned or seen.  (When the read and the write of _last inside a   *)
(* call are steps that threads interleave, two calls return equal Stamps,    *)
(* and a Stamp adopted by seeTimestamp is overwritten by a smaller one.)     *)
(***************************************************************************)
C11_Serialized ==
    [][serialized
       => /\ (IssueStep("A") /\ NewCall.ret.kind = "Stamp")
             => \A s \in issued["A"] \cup seen["A"] : Gt(NewCall.ret.stamp, s)
          /\ \A s \in issued'["A"] \cup seen'["A"] : ~Gt(s, last'["A"])]_vars

\* not serialized: two calls of issueTimestamp have returned equal Stamps
C11_Race ==
    /\ ~serialized
    /\ calls > 1
    /\ Earlier.name = "issueTimestamp" /\ Latest.name = "issueTimestamp"
    /\ Earlier.ret.kind = "Stamp" /\ Latest.ret.kind = "Stamp"
    /\ Earlier.ret.stamp = Latest.ret.stamp

\* not serialized: the Stamp seeTimestamp adopted was overwritten by a
\* smaller one that issueTimestamp returned
C11_Overwritten ==
    /\ ~serialized
    /\ calls > 1
    /\ Earlier.name = "seeTimestamp" /\ Earlier.ret.kind = "undefined"
    /\ Gt(Earlier.arg, Earlier.prev)
    /\ Latest.name = "issueTimestamp" /\ Latest.ret.kind = "Stamp"
    /\ Gt(Earlier.arg, Latest.ret.stamp)
    /\ last["A"] = Latest.ret.stamp

(***************************************************************************)
(* C12: the clock compares value-major, origin-minor.  seeTimestamp given a  *)
(* Stamp of the value of _last adopts it only if its origin is greater than  *)
(* the origin of _last; given a Stamp of another value it adopts it exactly  *)
(* if the value is greater, whatever the origins.  issueTimestamp, its       *)
(* candidate and _last differing in value, falls back exactly if the         *)
(* candidate's value is smaller, whatever the origins.                       *)
(***************************************************************************)
C12_ValueMajor ==
    [][\A r \in Replicas :
          /\ (SeeStep(r) /\ NewCall.ret.kind = "undefined")
             => LET byValue  == Compare(NewCall.arg.value, last[r].value)
                    byOrigin == Compare(NewCall.arg.origin, last[r].origin)
                IN  /\ (byValue = 0 /\ byOrigin = 1) => last'[r] = NewCall.arg
                    /\ (byValue = 0 /\ byOrigin # 1) => last'[r] = last[r]
                    /\ byValue = 1 => last'[r] = NewCall.arg
                    /\ byValue = -1 => last'[r] = last[r]
          /\ IssueStep(r)
             => LET byValue == Compare(Candidate(r).value, last[r].value)
                IN  /\ byValue = -1
                       => IF CanIncrement(last[r].value)
                          THEN NewCall.ret = Returned(StampNext(last[r], origin[r]))
                          ELSE NewCall.ret.kind = "OverflowError"
                    /\ byValue = 1
                       => /\ NewCall.ret.kind = "Stamp"
                          /\ NewCall.ret.stamp.value
                                = SubSeq(Candidate(r).value, 1, Len(NewCall.ret.stamp.value))]_vars

\* a Stamp of the value of _last and of a greater origin was adopted, after
\* one of the same value and a smaller origin was not
C12_Witness ==
    /\ calls > 1
    /\ Earlier.name = "seeTimestamp" /\ Latest.name = "seeTimestamp"
    /\ Earlier.clock = Latest.clock
    /\ Compare(Earlier.arg.value, Earlier.prev.value) = 0
    /\ Compare(Earlier.arg.origin, Earlier.prev.origin) = -1
    /\ Latest.prev = Earlier.prev
    /\ Compare(Latest.arg.value, Latest.prev.value) = 0
    /\ Compare(Latest.arg.origin, Latest.prev.origin) = 1
    /\ last[Latest.clock] = Latest.arg

(***************************************************************************)
(* C13: in every state, after any calls, the offset of a clock is what       *)
(* construction made it: 0 without options or with neither learnOffset nor   *)
(* an offset; with learnOffset, the initial Stamp's milliseconds minus the   *)
(* reading of the wall clock at construction, an offset given too having no  *)
(* effect; without learnOffset, the offset given, as an integer.             *)
(***************************************************************************)
C13_Offset ==
    \A r \in Replicas :
        LET o       == built[r].options
            initial == StampAs(built[r].now).stamp
        IN  /\ ~o.given => offset[r] = 0
            /\ (o.given /\ ~o.learnOffset /\ o.offset = 0) => offset[r] = 0
            /\ (o.given /\ o.learnOffset)
               => offset[r] = CalendarDecode(initial.value) - built[r].wall
            /\ (o.given /\ ~o.learnOffset /\ o.offset # 0)
               => (offset[r] + offset[r] \in {o.offset, o.offset - 1})

\* a clock constructed with learnOffset and an offset has learned another
\* offset than the one given, and keeps it through calls, the wall clock
\* having moved on since
C13_Witness ==
    /\ calls > 1
    /\ built["A"].options.learnOffset /\ built["A"].options.offset # 0
    /\ offset["A"] # ToInt32(built["A"].options.offset)
    /\ wall["A"] # built["A"].wall /\ built["A"].wall # 0
    /\ Latest.name = "issueTimestamp" /\ Earlier.name = "seeTimestamp"

\* the latest operation on the version vectors (when there is one)
LatestVV == vvlog[Len(vvlog)]

(***************************************************************************)
(* C14: update(ts) sets the entry of ts.origin to ts.value when there is     *)
(* none or ts.value is strictly greater, and is a no-op otherwise: no entry  *)
(* ever decreases, and repeating the update changes nothing.  covers(ts) is  *)
(* true exactly when the entry of ts.origin is >= ts.value, false when the   *)
(* origin has no entry, and always true for the zero origin.  From the empty *)
(* vector, after update("1-A") and update("0-A"), "0-A" is covered and no    *)
(* Stamp of origin B is.                                                     *)
(***************************************************************************)
C14_UpdateCovers ==
    vvlog # << >> =>
        LET o   == LatestVV
            b   == o.before
            a   == vec[o.on]
            org == o.ts.origin
        IN  /\ o.op = "update"
               => /\ (~VVHas(b, org) \/ Compare(o.ts.value, b[org]) = 1)
                     => a = [b EXCEPT ![org] = o.ts.value]
                  /\ (VVHas(b, org) /\ Compare(o.ts.value, b[org]) # 1) => a = b
                  /\ \A p \in VVOrigins :
                        VVHas(b, p) => VVHas(a, p) /\ Compare(a[p], b[p]) >= 0
                  /\ VVUpdate(a, o.ts) = a
                  /\ VVCovers(a, o.ts)
            /\ o.op = "covers"
               => /\ a = b
                  /\ org = ZeroOrigin => o.result
                  /\ (org # ZeroOrigin /\ ~VVHas(a, org)) => ~o.result
                  /\ (org # ZeroOrigin /\ VVHas(a, org))
                     => (o.result <=> Compare(a[org], o.ts.value) >= 0)
            /\ ( /\ Len(vvlog) = 2
                 /\ vvlog[1].op = "update" /\ vvlog[1].before = EmptyVV
                 /\ vvlog[1].ts = Stamp(<< 1 >>, Origin("A"))
                 /\ vvlog[2].op = "update"
                 /\ vvlog[2].ts = Stamp(<< 0 >>, Origin("A")) )
               => /\ VVCovers(vec["X"], Stamp(<< 0 >>, Origin("A")))
                  /\ \A q \in VVQueries \cup VVUpdates :
                        q.origin = Origin("B") => ~VVCovers(vec["X"], q)

\* from the empty vector: update("1-A"), update("0-A"); "1" is still the
\* entry of A, and B has none
C14_Witness ==
    /\ Len(vvlog) = 2
    /\ vvlog[1].op = "update" /\ vvlog[1].before = EmptyVV
    /\ vvlog[1].ts = Stamp(<< 1 >>, Origin("A"))
    /\ vvlog[2].op = "update" /\ vvlog[2].ts = Stamp(<< 0 >>, Origin("A"))
    /\ vec["X"][Origin("A")] = << 1 >>
    /\ ~VVHas(vec["X"], Origin("B"))

(***************************************************************************)
(* C15: merge is the per-origin maximum: an origin has an entry in the       *)
(* result exactly if it has one in either vector, and the entry is the       *)
(* greater of the two.  For all vectors a, b, c: merge(a, b) = merge(b, a),  *)
(* merge(a, a) = a and merge(merge(a, b), c) = merge(a, merge(b, c)).        *)
(***************************************************************************)
C15_MergeLattice ==
    LET x  == vec["X"]
        y  == vec["Y"]
        z  == vec["Z"]
        xy == VVMerge(x, y)
        yx == VVMerge(y, x)
        yz == VVMerge(y, z)
        zy == VVMerge(z, y)
        xz == VVMerge(x, z)
        zx == VVMerge(z, x)
        xx == VVMerge(x, x)
        yy == VVMerge(y, y)
        zz == VVMerge(z, z)
        left  == VVMerge(xy, z)
        right == VVMerge(x, yz)
    IN  /\ VVEq(xy, yx) /\ VVEq(yz, zy) /\ VVEq(xz, zx)
        /\ VVEq(xx, x) /\ VVEq(yy, y) /\ VVEq(zz, z)
        /\ VVEq(left, right)
        /\ (vvlog # << >> /\ LatestVV.op = "merge")
           => LET own   == LatestVV.before
                  other == IF LatestVV.other = LatestVV.on
                           THEN own ELSE vec[LatestVV.other]
                  res   == vec[LatestVV.on]
              IN  \A p \in VVOrigins :
                    /\ VVHas(res, p) <=> (VVHas(own, p) \/ VVHas(other, p))
                    /\ res[p] \in {own[p], other[p]}
                    /\ VVHas(own, p) => Compare(res[p], own[p]) >= 0
                    /\ VVHas(other, p) => Compare(res[p], other[p]) >= 0

\* two vectors were merged, each of which had an entry greater than the
\* other's: the result is neither of them
C15_Witness ==
    /\ vvlog # << >>
    /\ LatestVV.op = "merge" /\ LatestVV.on # LatestVV.other
    /\ ~VVEq(vec[LatestVV.on], LatestVV.before)
    /\ ~VVEq(vec[LatestVV.on], vec[LatestVV.other])
    /\ \E p \in VVOrigins :
          /\ VVHas(LatestVV.before, p) /\ VVHas(vec[LatestVV.other], p)
          /\ Compare(LatestVV.before[p], vec[LatestVV.other][p]) = 1

\* the laws with vectors compared entry by entry as strings of symbols: the
\* entries "1" and "10", of one value, make merge(a, b) and merge(b, a) differ
C15_SameStrings ==
    VVMerge(vec["X"], vec["Y"]) = VVMerge(vec["Y"], vec["X"])

(***************************************************************************)
(* C16: every Stamp issueTimestamp returns carries the clock's own origin,   *)
(* the origin of the initial Stamp given at construction, whichever branch   *)
(* produced it and whatever origin _last had.                                *)
(***************************************************************************)
C16_OwnOrigin ==
    (calls > 0 /\ Latest.name = "issueTimestamp" /\ Latest.ret.kind = "Stamp")
    => /\ Latest.ret.stamp.origin = StampAs(built[Latest.clock].now).stamp.origin
       /\ Latest.ret.stamp.origin = Origin(Latest.clock)

\* _last was a Stamp adopted from the other replica, ahead of the wall clock:
\* the fallback returned a Stamp of the clock's own origin
C16_Witness ==
    /\ calls > 1
    /\ Earlier.name = "seeTimestamp" /\ Latest.name = "issueTimestamp"
    /\ Earlier.clock = Latest.clock
    /\ Gt(Earlier.arg, Earlier.prev)
    /\ Latest.prev = Earlier.arg
    /\ Latest.prev.origin = Origin(Other(Latest.clock))
    /\ ~Gt(Latest.arg, Latest.prev)
    /\ Latest.ret.kind = "Stamp"
    /\ Latest.ret.stamp.origin = Origin(Latest.clock)

(***************************************************************************)
(* C17: clocks of distinct origins, their wall clocks apart, giving each     *)
(* other the Stamps they issue in any order: no Stamp issueTimestamp returns *)
(* equals a Stamp returned before, by the same clock or by another (one of   *)
(* the two is greater than the other).                                       *)
(***************************************************************************)
C17_Unique ==
    [][\A r \in Replicas :
          (IssueStep(r) /\ NewCall.ret.kind = "Stamp")
          => \A q \in Replicas : \A s \in issued[q] :
                /\ s # NewCall.ret.stamp
                /\ Gt(s, NewCall.ret.stamp) \/ Gt(NewCall.ret.stamp, s)]_vars

\* a clock has seen a Stamp of the other clock and issued one of the same
\* value: the origins tell them apart
C17_Witness ==
    /\ calls > 1
    /\ Latest.name = "issueTimestamp" /\ Latest.ret.kind = "Stamp"
    /\ \E s \in issued[Other(Latest.clock)] \cap seen[Latest.clock] :
          /\ Compare(s.value, Latest.ret.stamp.value) = 0
          /\ s.origin # Latest.ret.stamp.origin

(***************************************************************************)
(* C18: in every state _last is the maximum of the initial Stamp given at    *)
(* construction, the Stamps issueTimestamp has returned and the Stamps       *)
(* seeTimestamp was given: it is one of them and none of them is greater.    *)
(* Right after issueTimestamp has returned a Stamp, _last is that Stamp.     *)
(***************************************************************************)
C18_LastIsMax ==
    /\ \A r \in Replicas :
          LET known == {StampAs(built[r].now).stamp} \cup issued[r] \cup seen[r]
          IN  /\ last[r] \in known
              /\ \A s \in known : ~Gt(s, last[r])
    /\ (calls > 0 /\ Latest.name = "issueTimestamp" /\ Latest.ret.kind = "Stamp")
       => last[Latest.clock] = Latest.ret.stamp

\* after issuing, the clock was given a greater Stamp and then a smaller
\* one: _last is the greater one, not the Stamp issued, not the latest seen
C18_Witness ==
    /\ calls > 2
    /\ issued["A"] # {}
    /\ Earlier.name = "seeTimestamp" /\ Latest.name = "seeTimestamp"
    /\ Earlier.clock = "A" /\ Latest.clock = "A"
    /\ Earlier.ret.kind = "undefined" /\ Latest.ret.kind = "undefined"
    /\ last["A"] = Earlier.arg
    /\ Gt(last["A"], Latest.arg)
    /\ \A s \in issued["A"] : Gt(last["A"], s)

AsConstructed(r) ==
    LET o == built[r].options
    IN  /\ origin[r] = StampAs(built[r].now).stamp.origin
        /\ minlen[r] = IF o.given /\ o.minLength # 0 THEN o.minLength ELSE 6
        /\ offset[r] = IF o.given /\ o.learnOffset
                       THEN CalendarDecode(StampAs(built[r].now).stamp.value) - built[r].wall
                       ELSE IF o.given THEN ToInt32(o.offset) ELSE 0

C20_Frame ==
    [][/\ \A r \in Replicas :
             /\ (SeeStep(r) \/ IssueStep(r))
                => /\ origin' = origin /\ offset' = offset /\ minlen' = minlen
                   /\ last'[Other(r)] = last[Other(r)]
                   /\ wall' = wall
             /\ SeeStep(r) => NewCall.ret.kind # "Stamp"
             /\ AsConstructed(r)
       /\ (\A r \in Replicas : AsConstructed(r))']_vars

\* a clock constructed with a minimal length of 7 has adopted a Stamp of the
\* other replica and issued: its origin and minimal length are its own
C20_Witness ==
    /\ calls > 1
    /\ built["A"].options.minLength = 7 /\ minlen["A"] = 7
    /\ Earlier.name = "seeTimestamp" /\ Earlier.clock = "A"
    /\ Gt(Earlier.arg, Earlier.prev)
    /\ Earlier.arg.origin = Origin("B")
    /\ Latest.name = "issueTimestamp" /\ Latest.clock = "A"
    /\ Latest.ret.kind = "Stamp"
    /\ origin["A"] = Origin("A")

====
